---- MODULE Spec2Model ----
(***************************************************************************)
(* Model of sepaq_crawler: the stateful two-step API query, the date-range *)
(* availability matcher and the search/poll loop of search().              *)
(***************************************************************************)
EXTENDS Integers, Sequences, FiniteSets, TLC

(***************************************************************************)
(* Bounds of the model.                                                    *)
(***************************************************************************)
\* number of calendar days in the window the dates are drawn from
MaxSpan == 4
\* longest date list a date-availability fetch returns
MaxDates == 2
\* longest park list the park enumeration returns
MaxParks == 2
\* longest cabin list a cabin enumeration returns
MaxCabins == 2
\* largest value of the retries option
MaxRetries == 2
\* iteration index at which a run that has not exited is cut off
MaxIter == 2
\* calls of the location lookups, when they are called alone
MaxLookups == 7

\* Optional[int]: None is <<>>, the integer n is <<n>>
None == <<>>
Some(n) == <<n>>

(***************************************************************************)
(* datetime.date: the calendar arithmetic behind (stop - start).days,      *)
(* start + timedelta(i) and date.fromisoformat.                            *)
(***************************************************************************)
Date(y, m, d) == [year |-> y, month |-> m, day |-> d]

IsLeap(y) == y % 4 = 0 /\ (y % 100 # 0 \/ y % 400 = 0)

DaysInMonth(y, m) ==
    IF m = 2 THEN (IF IsLeap(y) THEN 29 ELSE 28)
    ELSE IF m \in {4, 6, 9, 11} THEN 30 ELSE 31

DaysBeforeYear(y) ==
    (y - 1) * 365 + ((y - 1) \div 4) - ((y - 1) \div 100) + ((y - 1) \div 400)

RECURSIVE DaysBeforeMonth(_, _)
DaysBeforeMonth(y, m) ==
    IF m <= 1 THEN 0 ELSE DaysBeforeMonth(y, m - 1) + DaysInMonth(y, m - 1)

\* date.toordinal(): day 1 is 0001-01-01
ToOrdinal(d) == DaysBeforeYear(d.year) + DaysBeforeMonth(d.year, d.month) + d.day

\* date.fromordinal(n), by the 400/100/4/1-year cycle decomposition
FromOrdinal(ord) ==
    LET n0   == ord - 1
        n400 == n0 \div 146097
        r400 == n0 % 146097
        n100 == r400 \div 36524
        r100 == r400 % 36524
        n4   == r100 \div 1461
        r4   == r100 % 1461
        n1   == r4 \div 365
        n    == r4 % 365
        year == n400 * 400 + 1 + n100 * 100 + n4 * 4 + n1
        leap == n1 = 3 /\ (n4 # 24 \/ n100 = 3)
        lp(m) == IF m > 2 /\ leap THEN 1 ELSE 0
        m0   == (n + 50) \div 32
        p0   == DaysBeforeMonth(1, m0) + lp(m0)
        month == IF p0 > n THEN m0 - 1 ELSE m0
        prec == DaysBeforeMonth(1, month) + lp(month)
    IN  IF n1 = 4 \/ n100 = 4
        THEN Date(year - 1, 12, 31)
        ELSE Date(year, month, n - prec + 1)

\* (b - a).days
DaysBetween(a, b) == ToOrdinal(b) - ToOrdinal(a)

\* d + datetime.timedelta(i)
AddDays(d, i) == FromOrdinal(ToOrdinal(d) + i)

DigitChars == <<"0", "1", "2", "3", "4", "5", "6", "7", "8", "9">>

IsDigit(c) == \E k \in 1..10 : DigitChars[k] = c

DigitVal(c) == (CHOOSE k \in 1..10 : DigitChars[k] = c) - 1

Ch(s, k) == SubSeq(s, k, k)

\* date.isoformat(): "YYYY-MM-DD"
IsoFormat(d) ==
    LET dg(v) == DigitChars[(v % 10) + 1]
    IN  dg(d.year \div 1000) \o dg(d.year \div 100) \o dg(d.year \div 10) \o dg(d.year)
        \o "-" \o dg(d.month \div 10) \o dg(d.month)
        \o "-" \o dg(d.day \div 10) \o dg(d.day)

\* date.fromisoformat(s): [ok |-> TRUE, date |-> d], or ok = FALSE for ValueError
FromIsoFormat(s) ==
    LET shaped == /\ Len(s) = 10
                  /\ Ch(s, 5) = "-" /\ Ch(s, 8) = "-"
                  /\ \A k \in {1, 2, 3, 4, 6, 7, 9, 10} : IsDigit(Ch(s, k))
        num(a, b) == LET RECURSIVE val(_, _)
                         val(k, acc) == IF k > b THEN acc
                                        ELSE val(k + 1, acc * 10 + DigitVal(Ch(s, k)))
                     IN  val(a, 0)
        bad == [ok |-> FALSE, date |-> Date(0, 0, 0)]
    IN  IF ~shaped THEN bad
        ELSE LET y == num(1, 4)
                 m == num(6, 7)
                 d == num(9, 10)
             IN  IF y >= 1 /\ m \in 1..12 /\ d >= 1 /\ d <= DaysInMonth(y, m)
                 THEN [ok |-> TRUE, date |-> Date(y, m, d)]
                 ELSE bad

(***************************************************************************)
(* date_time_range                                                         *)
(***************************************************************************)
\* as date_time_range, with the stop date included
date_time_range_inclusive(start, stop) ==
    LET n_days == DaysBetween(start, stop)
    IN  [k \in 1..(n_days + 1) |-> AddDays(start, k - 1)]

date_time_range(start, stop) ==
    LET n_days == DaysBetween(start, stop)
    IN  [k \in 1..n_days |-> AddDays(start, k - 1)]

(***************************************************************************)
(* CabinDate and Cabin.is_available                                        *)
(***************************************************************************)
\* CabinDate.is_available: the record's "availability" field
CabinDate_is_available(a) == a.availability

\* CabinDate.date: the parsed "dateAsStandardString" field
CabinDate_date(a) == FromIsoFormat(a.dateAsStandardString)

\* as is_available, with every listed date taken as free
is_available_any_listed(dates, start, stop) ==
    LET listed == 1..Len(dates)
    IN  IF \E k \in listed : ~CabinDate_date(dates[k]).ok
        THEN [exc |-> "ValueError", val |-> FALSE]
        ELSE LET free_dates   == {CabinDate_date(dates[k]).date : k \in listed}
                 needed_dates == date_time_range(start, stop)
             IN  [exc |-> "none",
                  val |-> \A k \in 1..Len(needed_dates) : needed_dates[k] \in free_dates]

\* Cabin.is_available on a fetched date list: [exc, val]; exc = "ValueError"
\* when the date of an entry marked available does not parse
is_available(dates, start, stop) ==
    LET free == {k \in 1..Len(dates) : CabinDate_is_available(dates[k])}
    IN  IF \E k \in free : ~CabinDate_date(dates[k]).ok
        THEN [exc |-> "ValueError", val |-> FALSE]
        ELSE LET free_dates   == {CabinDate_date(dates[k]).date : k \in free}
                 needed_dates == date_time_range(start, stop)
             IN  [exc |-> "none",
                  val |-> \A k \in 1..Len(needed_dates) : needed_dates[k] \in free_dates]

(***************************************************************************)
(* Inputs of the date functions.                                           *)
(***************************************************************************)
FirstDay == Date(2024, 2, 28)

RECURSIVE NextDays(_, _)
\* the k calendar days from d on, by stepping the calendar one day at a time
NextDays(d, k) ==
    IF k = 0 THEN {}
    ELSE LET nxt == IF d.day < DaysInMonth(d.year, d.month) THEN Date(d.year, d.month, d.day + 1)
                    ELSE IF d.month < 12 THEN Date(d.year, d.month + 1, 1)
                    ELSE Date(d.year + 1, 1, 1)
         IN  {d} \cup NextDays(nxt, k - 1)

Days == NextDays(FirstDay, MaxSpan)

\* "2024-02-30" has the shape of a date and is none
DateStrings == {IsoFormat(d) : d \in Days} \cup {"2024-02-30"}

DateRecords == [dateAsStandardString : DateStrings, availability : BOOLEAN]

SeqsUpTo(S, n) == UNION {[1..k -> S] : k \in 0..n}

DateLists == SeqsUpTo(DateRecords, MaxDates)

(***************************************************************************)
(* The upstream API: URLs and the records it may answer with.              *)
(***************************************************************************)
SEPAQ_BASE_URL == "https://www.sepaq.com"

ChaletPage   == SEPAQ_BASE_URL \o "/en/reservation/chalet"
ResultsApi   == SEPAQ_BASE_URL \o "/en/reservation/carte/resultats"
AvailApi     == SEPAQ_BASE_URL \o "/en/reservation/availabilities/"

\* park records of the enumeration, with coordinates in whole degrees; the
\* last one redirects to an external site
ParkRecords ==
    { [nom |-> "Jacques-Cartier", url |-> "/jacques-cartier",
       coordonnees |-> <<47, -71>>],
      [nom |-> "Oka",             url |-> "/oka",
       coordonnees |-> <<45, -74>>],
      [nom |-> "Anticosti",       url |-> "https://sepaq-anticosti.com",
       coordonnees |-> <<49, -63>>] }

\* what https://ipinfo.io/loc answers with: the machine is in Montreal
IpLoc == <<45, -73>>

CabinRecords ==
    { [nom |-> "Chalet A", url |-> "/chalet-a"],
      [nom |-> "Chalet B", url |-> "/chalet-b"] }

\* the API lists each park, and each cabin of a park, once
DistinctSeqs(S, n) == {q \in SeqsUpTo(S, n) : \A a, b \in 1..Len(q) : q[a] = q[b] => a = b}

ParkLists  == DistinctSeqs(ParkRecords, MaxParks)
CabinLists == DistinctSeqs(CabinRecords, MaxCabins)

\* date lists the availability endpoint answers with while polling: nothing,
\* every day of the window free, every day but the first free, and a free
\* entry whose date string is no date
WindowList(firstFree) ==
    [k \in 1..MaxSpan |->
        [dateAsStandardString |-> IsoFormat(AddDays(FirstDay, k - 1)),
         availability |-> (k > 1 \/ firstFree)]]

PollBodies ==
    { <<>>, WindowList(TRUE), WindowList(FALSE),
      <<[dateAsStandardString |-> "2024-02-30", availability |-> TRUE]>> }

\* the wanted ranges of a run: two nights from the first day, and an empty range
Stays == { <<FirstDay, AddDays(FirstDay, 2)>>, <<AddDays(FirstDay, 1), FirstDay>> }

\* str.startswith
StartsWith(s, prefix) ==
    Len(s) >= Len(prefix) /\ SubSeq(s, 1, Len(prefix)) = prefix

(***************************************************************************)
(* State of one run of search() with the date matcher as cabin_available.  *)
(***************************************************************************)
VARIABLES
    retries,      \* the retries argument: None or an integer
    arriving,     \* start of the wanted date range
    leaving,      \* end (exclusive) of the wanted date range
    pc,           \* position of search()
    raisedAt,     \* position at which an exception was raised, or ""
    rawParks,     \* the park records the enumeration answered with
    allParks,     \* result of Park.get_all()
    parkLog,      \* results of park_filter, one per park of allParks so far
    parks,        \* the kept parks
    pidx,         \* position of the phase 1 loops over parks
    enumerated,   \* the parks whose cabins() was called, in call order
    curCabins,    \* result of the current p.cabins()
    cidx,         \* position in curCabins
    cabins,       \* the kept cabins
    cabinOk,      \* result of cabin_filter for each kept cabin
    getAllCalls,  \* number of calls of Park.get_all
    i,            \* iteration index of the polling loop
    ci,           \* position in cabins within the iteration
    availLog,     \* results of cabin_available in this iteration, per cabin
    alertLog,     \* cabins passed to alert in this iteration, per cabin
    foundNothing, \* "Found nothing" was printed in this iteration
    evals,        \* number of calls of cabin_available
    alerts,       \* number of calls of alert
    sleeps,       \* number of calls of time.sleep
    gets,         \* the HTTP GETs of the stateful_json_request in progress
    jar,          \* cookies set by the page response of that request
    issued,       \* number of page GETs so far (each response may set a fresh cookie)
    fetched,      \* the date list c.dates() has just returned, or None
    fn,           \* inputs and outputs of the date functions applied alone
    cli,          \* the options of the command line, when its callbacks are used
    geo           \* the location lookups done so far and what is memoized

inputs == <<retries, arriving, leaving>>
http   == <<gets, jar, issued, fetched>>
phase1 == <<rawParks, allParks, parkLog, parks, pidx, enumerated, curCabins, cidx, cabins,
            cabinOk, getAllCalls>>
phase2 == <<i, ci, availLog, alertLog, foundNothing, evals, alerts, sleeps>>
vars   == <<inputs, pc, raisedAt, phase1, phase2, http, fn, cli, geo>>

NoFn == [op |-> "none"]

Phase1Pcs == {"start", "get_all", "park_filter", "cabins", "cabins_ret", "cabin_filter"}
Phase2Pcs == {"loop", "poll", "dates_ret", "alert", "sleep"}

\* Park(data); id is the position of the record in the enumeration response
Park(data, id) == [data |-> data, id |-> id]
Park_name(p) == p.data.nom
Park_url(p) == SEPAQ_BASE_URL \o p.data.url

\* as LocalParks, with every record of the response kept
LocalParks_All(body, k) == [j \in 1..Len(body) |-> Park(body[j], j)]

\* [cls(p) for p in parks if p["url"].startswith("/")], from position k on
RECURSIVE LocalParks(_, _)
LocalParks(body, k) ==
    IF k > Len(body) THEN <<>>
    ELSE (IF StartsWith(body[k].url, "/") THEN <<Park(body[k], k)>> ELSE <<>>)
         \o LocalParks(body, k + 1)

\* Cabin(data, park)
Cabin(data, park) == [data |-> data, park |-> park]
Cabin_name(c) == c.data.nom
Cabin_url(c) == SEPAQ_BASE_URL \o c.data.url

(***************************************************************************)
(* Location lookups. geo counts the requests made and holds what the two   *)
(* functools.lru_cache decorators keep: the geocoder object and the result *)
(* of current_location().                                                  *)
(***************************************************************************)
ParkCoords == {r.coordonnees : r \in ParkRecords}
GeoKeys    == ParkCoords \cup {IpLoc}

NoGeo ==
    [ip       |-> 0,                          \* requests to ipinfo.io
     here     |-> FALSE,                      \* current_location() has a cached result
     built    |-> 0,                          \* Nominatim objects constructed
     locCalls |-> 0,                          \* calls of current_location()
     asked    |-> [k \in ParkCoords |-> 0],   \* accesses of Park.location, per coordinates
     reverse  |-> [k \in GeoKeys |-> 0]]      \* reverse-geocoding requests, per coordinates

\* geocoder(): the Nominatim object is constructed on the first call only
geocoder(g) == IF g.built > 0 THEN g ELSE [g EXCEPT !.built = @ + 1]

\* geocoder().reverse(coords): one request to the geocoding service
reverse(g, coords) == [geocoder(g) EXCEPT !.reverse[coords] = @ + 1]

\* as current_location, without its lru_cache: every call looks the IP up
current_location_Uncached(g) ==
    [reverse([g EXCEPT !.locCalls = @ + 1, !.ip = @ + 1], IpLoc) EXCEPT !.here = TRUE]

\* current_location(): the first call asks ipinfo.io and reverse-geocodes the
\* answer; later calls are served from the cache
current_location(g) ==
    IF g.here THEN [g EXCEPT !.locCalls = @ + 1]
    ELSE [reverse([g EXCEPT !.locCalls = @ + 1, !.ip = @ + 1], IpLoc) EXCEPT !.here = TRUE]

\* Park.location: a property, computed by a reverse-geocoding request at
\* every access
Park_location(g, p) ==
    reverse([g EXCEPT !.asked[p.data.coordonnees] = @ + 1], p.data.coordonnees)

Abs(n) == IF n < 0 THEN 0 - n ELSE n

\* distance_km(a, b): the geodesic distance, here 100 km per degree along
\* the meridian and the parallel
distance_km(a, b) == 100 * (Abs(a[1] - b[1]) + Abs(a[2] - b[2]))

\* Park.distance_km_from(location)
Park_distance_km_from(p, location) == distance_km(location, p.data.coordonnees)

(***************************************************************************)
(* The callbacks of the command line (__main__.py).                        *)
(***************************************************************************)
\* the callbacks are any functions: no command line
NoCli ==
    [on |-> FALSE, notify |-> FALSE, min_capacity |-> None, parks |-> None,
     distance |-> None]

\* str.split(","), scanning from position k with the current piece begun at from
RECURSIVE SplitFrom(_, _, _)
SplitFrom(s, k, from) ==
    IF k > Len(s) THEN <<SubSeq(s, from, Len(s))>>
    ELSE IF SubSeq(s, k, k) = ","
         THEN <<SubSeq(s, from, k - 1)>> \o SplitFrom(s, k + 1, k + 1)
         ELSE SplitFrom(s, k + 1, from)

Split(s) == SplitFrom(s, 1, 1)

\* x in list
In(x, list) == \E k \in 1..Len(list) : list[k] = x

\* as cli_park_filter, with the distance tested before the allowlist
cli_park_filter_DistanceFirst(p, c, g) ==
    IF c.distance # None
    THEN LET g1 == current_location(g)
             g2 == Park_location(g1, p)
         IN  [keep |-> Park_distance_km_from(p, IpLoc) < c.distance[1], geo |-> g2]
    ELSE IF c.parks # None
    THEN [keep |-> In(Park_name(p), Split(c.parks[1])), geo |-> g]
    ELSE [keep |-> TRUE, geo |-> g]

\* park_filter of the command line: its result and the lookups it makes
cli_park_filter(p, c, g) ==
    IF c.parks # None
    THEN [keep |-> In(Park_name(p), Split(c.parks[1])), geo |-> g]
    ELSE IF c.distance # None
    THEN LET g1 == current_location(g)
             g2 == Park_location(g1, p)
         IN  [keep |-> Park_distance_km_from(p, IpLoc) < c.distance[1], geo |-> g2]
    ELSE [keep |-> TRUE, geo |-> g]

\* cabin_filter of the command line: c.capacity is read when a minimum is
\* given, and Cabin has no attribute capacity
cli_cabin_filter(c, o) ==
    IF o.min_capacity # None THEN "raise" ELSE "true"

\* alert of the command line: the line is printed; with --notify the message
\* is then assigned to notify, which is the flag, a bool
cli_alert(c, o) ==
    [printed |-> Cabin_name(c) \o ": " \o Cabin_url(c),
     sent    |-> FALSE,
     exc     |-> IF o.notify THEN "AttributeError" ELSE "none"]

(***************************************************************************)
(* stateful_json_request, in its two GETs.                                 *)
(***************************************************************************)
\* as ApiCookies, with a session shared by all requests: the cookies of
\* earlier page responses are sent too
ApiCookies_SharedSession(pageCookies, earlier) == pageCookies \cup earlier

\* cookies the second GET carries: page_response.cookies
ApiCookies(pageCookies, earlier) == pageCookies

\* requests.get(page_url): the GET goes out without cookies; the response,
\* if there is one, sets no cookie or a fresh session cookie
PageGet(page_url, ok) ==
    /\ gets' = <<[url |-> page_url, cookies |-> {}]>>
    /\ issued' = issued + 1
    /\ IF ok THEN jar' \in {{}, {issued + 1}} ELSE jar' = {}
    /\ fetched' = None

\* requests.get(api_url, cookies=page_response.cookies)
ApiGet(api_url) ==
    /\ gets' = Append(gets, [url |-> api_url, cookies |-> ApiCookies(jar, 1..(issued - 1))])
    /\ UNCHANGED <<jar, issued>>

\* no request is in progress: the locals of the last one are gone
HttpIdle == gets' = <<>> /\ jar' = {} /\ fetched' = None /\ UNCHANGED issued

\* as OnRaise, with a failed enumeration skipped and the polling started
OnRaise_SkipFailedEnumeration(at) ==
    IF at \in Phase1Pcs THEN "loop" ELSE "raised"

\* as OnRaise, with a failure while polling ending the iteration only: the
\* sleep and the next iteration follow
OnRaise_NextIteration(at) ==
    IF at \in {"poll", "dates_ret", "alert"} THEN "sleep" ELSE "raised"

\* where an exception raised at a position leads: nothing in search() catches it
OnRaise(at) == "raised"

Raise == pc' = OnRaise(pc) /\ raisedAt' = pc

\* outcomes of a callback: it returns a truth value or raises
Outcomes == {"true", "false", "raise"}
\* outcomes of the second GET: a parsed body, a transport error, a body that
\* is no JSON
ApiOutcomes == {"ok", "transport", "json"}

(***************************************************************************)
(* Phase 1 of search(): enumeration of parks and cabins.                   *)
(***************************************************************************)
\* as KeepPark, with the result of park_filter ignored
KeepPark_Always(accepted) == TRUE

\* park_filter keeps the parks it returns true for
KeepPark(accepted) == accepted

\* cabin_filter keeps the cabins it returns true for
KeepCabin(accepted) == accepted

\* what park_filter(p) may do: any callback returns a truth value or raises;
\* the one of the command line returns what cli_park_filter computes, unless
\* the request to ipinfo.io or the reverse-geocoding of the park fails
ParkFilterOutcomes(p) ==
    IF ~cli.on
    THEN {[keep |-> k, exc |-> x, geo |-> geo] : k \in BOOLEAN, x \in BOOLEAN}
    ELSE LET r == cli_park_filter(p, cli, geo)
         IN  {[keep |-> r.keep, exc |-> FALSE, geo |-> r.geo]}
             \cup (IF r.geo = geo THEN {}
                   ELSE {[keep |-> FALSE, exc |-> TRUE, geo |-> r.geo]})
             \cup (IF r.geo = geo \/ geo.here THEN {}
                   ELSE {[keep |-> FALSE, exc |-> TRUE,
                          geo |-> [geo EXCEPT !.locCalls = @ + 1, !.ip = @ + 1]]})

\* what cabin_filter(c) may do
CabinFilterOutcomes(c) ==
    IF cli.on THEN {cli_cabin_filter(c, cli)} ELSE Outcomes

\* whether alert(c) returns
AlertOutcomes(c) ==
    IF cli.on THEN {cli_alert(c, cli).exc = "none"} ELSE BOOLEAN

\* Park.get_all(): first GET of its stateful_json_request
GetAllCall ==
    /\ pc = "start"
    /\ getAllCalls' = getAllCalls + 1
    /\ \E ok \in BOOLEAN :
          /\ PageGet(ChaletPage, ok)
          /\ IF ok THEN pc' = "get_all" /\ UNCHANGED raisedAt ELSE Raise
    /\ UNCHANGED <<inputs, rawParks, allParks, parkLog, parks, pidx, enumerated, curCabins,
                   cidx, cabins, cabinOk, phase2, fn, cli, geo>>

\* Park.get_all(): second GET, json.loads, and the parks whose url is a path
GetAllReturn ==
    /\ pc = "get_all"
    /\ ApiGet(ResultsApi)
    /\ \E out \in ApiOutcomes :
          IF out = "ok"
          THEN \E body \in ParkLists :
                  /\ rawParks' = body
                  /\ allParks' = LocalParks(body, 1)
                  /\ pc' = "park_filter"
                  /\ UNCHANGED raisedAt
          ELSE Raise /\ UNCHANGED <<rawParks, allParks>>
    /\ fetched' = None
    /\ UNCHANGED <<inputs, parkLog, parks, pidx, enumerated, curCabins, cidx, cabins,
                   cabinOk, getAllCalls, phase2, fn, cli, geo>>

\* one park of [p for p in Park.get_all() if park_filter(p)]
ParkFilter ==
    /\ pc = "park_filter"
    /\ pidx <= Len(allParks)
    /\ \E out \in ParkFilterOutcomes(allParks[pidx]) :
          /\ geo' = out.geo
          /\ IF out.exc
             THEN Raise /\ UNCHANGED <<parkLog, parks, pidx>>
             ELSE /\ parkLog' = Append(parkLog, out.keep)
                  /\ parks' = IF KeepPark(out.keep) THEN Append(parks, allParks[pidx])
                              ELSE parks
                  /\ pidx' = pidx + 1
                  /\ UNCHANGED <<pc, raisedAt>>
    /\ HttpIdle
    /\ UNCHANGED <<inputs, rawParks, allParks, enumerated, curCabins, cidx, cabins, cabinOk,
                   getAllCalls, phase2, fn, cli>>

\* the park list is complete: the names are printed, the cabin enumeration starts
ParkFilterDone ==
    /\ pc = "park_filter"
    /\ pidx > Len(allParks)
    /\ pc' = "cabins"
    /\ pidx' = 1
    /\ HttpIdle
    /\ UNCHANGED <<inputs, raisedAt, rawParks, allParks, parkLog, parks, enumerated, curCabins,
                   cidx, cabins, cabinOk, getAllCalls, phase2, fn, cli, geo>>

\* p.cabins() of the next kept park: first GET, to the park's own page
CabinsCall ==
    /\ pc = "cabins"
    /\ pidx <= Len(parks)
    /\ enumerated' = Append(enumerated, parks[pidx])
    /\ \E ok \in BOOLEAN :
          /\ PageGet(Park_url(parks[pidx]), ok)
          /\ IF ok THEN pc' = "cabins_ret" /\ UNCHANGED raisedAt ELSE Raise
    /\ UNCHANGED <<inputs, rawParks, allParks, parkLog, parks, pidx, curCabins, cidx, cabins,
                   cabinOk, getAllCalls, phase2, fn, cli, geo>>

\* p.cabins(): second GET, json.loads, each record wrapped as a Cabin of p
CabinsReturn ==
    /\ pc = "cabins_ret"
    /\ ApiGet(ResultsApi)
    /\ \E out \in ApiOutcomes :
          IF out = "ok"
          THEN \E body \in CabinLists :
                  /\ curCabins' = [k \in 1..Len(body) |-> Cabin(body[k], parks[pidx])]
                  /\ pc' = "cabin_filter"
                  /\ UNCHANGED raisedAt
          ELSE Raise /\ UNCHANGED curCabins
    /\ fetched' = None
    /\ UNCHANGED <<inputs, rawParks, allParks, parkLog, parks, pidx, enumerated, cidx, cabins,
                   cabinOk, getAllCalls, phase2, fn, cli, geo>>

\* one cabin of [c for p in parks for c in p.cabins() if cabin_filter(c)]
CabinFilter ==
    /\ pc = "cabin_filter"
    /\ cidx <= Len(curCabins)
    /\ \E out \in CabinFilterOutcomes(curCabins[cidx]) :
          IF out = "raise"
          THEN Raise /\ UNCHANGED <<cabins, cabinOk, cidx>>
          ELSE /\ IF KeepCabin(out = "true")
                  THEN /\ cabins' = Append(cabins, curCabins[cidx])
                       /\ cabinOk' = Append(cabinOk, out = "true")
                  ELSE UNCHANGED <<cabins, cabinOk>>
               /\ cidx' = cidx + 1
               /\ UNCHANGED <<pc, raisedAt>>
    /\ HttpIdle
    /\ UNCHANGED <<inputs, rawParks, allParks, parkLog, parks, pidx, enumerated, curCabins,
                   getAllCalls, phase2, fn, cli, geo>>

\* the cabins of this park are filtered: on to the next kept park
CabinFilterDone ==
    /\ pc = "cabin_filter"
    /\ cidx > Len(curCabins)
    /\ pidx' = pidx + 1
    /\ curCabins' = <<>>
    /\ cidx' = 1
    /\ pc' = "cabins"
    /\ HttpIdle
    /\ UNCHANGED <<inputs, raisedAt, rawParks, allParks, parkLog, parks, enumerated, cabins,
                   cabinOk, getAllCalls, phase2, fn, cli, geo>>

\* the cabin list is complete: itertools.count() starts at 0
CabinsDone ==
    /\ pc = "cabins"
    /\ pidx > Len(parks)
    /\ pc' = "loop"
    /\ HttpIdle
    /\ UNCHANGED <<inputs, raisedAt, phase1, phase2, fn, cli, geo>>

(***************************************************************************)
(* Phase 2 of search(): the polling loop.                                  *)
(***************************************************************************)
\* as LoopExit, with the loop also left once a cabin was found
LoopExit_OnFirstSuccess(idx, r) == r # None /\ (Some(idx) = r \/ alerts > 0)

\* if i == retries: break
LoopExit(idx, r) == r # None /\ Some(idx) = r

\* as ShouldAlert, with a cabin alerted only while nothing was alerted before
ShouldAlert_OnlyFirst(available) == available /\ alerts = 0

\* if cabin_available(c): alert(c)
ShouldAlert(available) == available

\* as AfterIteration, with the sleep skipped after the final iteration
AfterIteration_SkipLastSleep(idx, r) ==
    IF r # None /\ Some(idx + 1) = r THEN "loop" ELSE "sleep"

\* the loop body ends with time.sleep(sleep), whatever i is
AfterIteration(idx, r) == "sleep"

\* as AfterSleep, with the parks and cabins enumerated again in every iteration
AfterSleep_Reenumerate == "start"

\* after the sleep the count yields the next i: the enumeration is not repeated
AfterSleep == "loop"

\* as Cabin_dates, with the list of an earlier iteration (every day but the
\* first free) served again from the second iteration on
Cabin_dates_Stale(body) == IF i > 0 THEN WindowList(FALSE) ELSE body

\* Cabin.dates(): the records of the response just fetched, each wrapped as
\* a CabinDate; nothing is kept from one call to the next
Cabin_dates(body) == body

\* for i in itertools.count(): if i == retries: break
LoopBreak ==
    /\ pc = "loop"
    /\ LoopExit(i, retries)
    /\ pc' = "done"
    /\ HttpIdle
    /\ UNCHANGED <<inputs, raisedAt, phase1, phase2, fn, cli, geo>>

\* else: print(f"Iteration {i}"), and the loop over the kept cabins starts
LoopIter ==
    /\ pc = "loop"
    /\ ~LoopExit(i, retries)
    /\ i < MaxIter
    /\ pc' = "poll"
    /\ ci' = 1
    /\ availLog' = <<>>
    /\ alertLog' = <<>>
    /\ foundNothing' = FALSE
    /\ HttpIdle
    /\ UNCHANGED <<inputs, raisedAt, phase1, i, evals, alerts, sleeps, fn, cli, geo>>

\* cabin_available(c) is c.is_available(arriving, leaving): c.dates() issues
\* the first GET, to the cabin's own page
DatesCall ==
    /\ pc = "poll"
    /\ ci <= Len(cabins)
    /\ evals' = evals + 1
    /\ \E ok \in BOOLEAN :
          /\ PageGet(Cabin_url(cabins[ci]), ok)
          /\ IF ok THEN pc' = "dates_ret" /\ UNCHANGED raisedAt ELSE Raise
    /\ UNCHANGED <<inputs, phase1, i, ci, availLog, alertLog, foundNothing, alerts,
                   sleeps, fn, cli, geo>>

\* c.dates(): second GET and json.loads; then is_available decides
DatesReturn ==
    /\ pc = "dates_ret"
    /\ ApiGet(AvailApi)
    /\ \E out \in ApiOutcomes :
          IF out = "ok"
          THEN \E body \in PollBodies :
                  LET r == is_available(Cabin_dates(body), arriving, leaving)
                  IN  /\ fetched' = Some(body)
                      /\ IF r.exc # "none"
                         THEN Raise /\ UNCHANGED <<ci, availLog, alertLog>>
                         ELSE /\ availLog' = Append(availLog, r.val)
                              /\ UNCHANGED raisedAt
                              /\ IF ShouldAlert(r.val)
                                 THEN pc' = "alert" /\ UNCHANGED <<ci, alertLog>>
                                 ELSE /\ alertLog' = Append(alertLog, <<>>)
                                      /\ ci' = ci + 1
                                      /\ pc' = "poll"
          ELSE Raise /\ fetched' = None /\ UNCHANGED <<ci, availLog, alertLog>>
    /\ UNCHANGED <<inputs, phase1, i, foundNothing, evals, alerts, sleeps, fn, cli, geo>>

\* alert(c): the callback returns or raises
Alert ==
    /\ pc = "alert"
    /\ alerts' = alerts + 1
    /\ alertLog' = Append(alertLog, <<cabins[ci]>>)
    /\ \E ok \in AlertOutcomes(cabins[ci]) :
          IF ok THEN pc' = "poll" /\ ci' = ci + 1 /\ UNCHANGED raisedAt
          ELSE Raise /\ UNCHANGED ci
    /\ HttpIdle
    /\ UNCHANGED <<inputs, phase1, i, availLog, foundNothing, evals, sleeps, fn, cli, geo>>

\* the for over the cabins ends without break: its else prints "Found nothing"
PollDone ==
    /\ pc = "poll"
    /\ ci > Len(cabins)
    /\ foundNothing' = TRUE
    /\ pc' = AfterIteration(i, retries)
    /\ i' = IF AfterIteration(i, retries) = "sleep" THEN i ELSE i + 1
    /\ HttpIdle
    /\ UNCHANGED <<inputs, raisedAt, phase1, ci, availLog, alertLog, evals, alerts,
                   sleeps, fn, cli, geo>>

\* time.sleep(sleep), then the next value of itertools.count()
Sleep ==
    /\ pc = "sleep"
    /\ sleeps' = sleeps + 1
    /\ \E ok \in BOOLEAN :
          IF ok THEN pc' = AfterSleep /\ i' = i + 1 /\ UNCHANGED raisedAt
          ELSE Raise /\ UNCHANGED i
    /\ HttpIdle
    /\ UNCHANGED <<inputs, phase1, ci, availLog, alertLog, foundNothing, evals,
                   alerts, fn, cli, geo>>

(***************************************************************************)
(* The run of search().                                                    *)
(***************************************************************************)
RetriesValues == {None} \cup {Some(n) : n \in (-1)..MaxRetries}

InitRun ==
    /\ raisedAt = ""
    /\ rawParks = <<>> /\ allParks = <<>> /\ parkLog = <<>> /\ parks = <<>> /\ pidx = 1
    /\ enumerated = <<>> /\ curCabins = <<>> /\ cidx = 1
    /\ cabins = <<>> /\ cabinOk = <<>> /\ getAllCalls = 0
    /\ i = 0 /\ ci = 1 /\ availLog = <<>> /\ alertLog = <<>> /\ foundNothing = FALSE
    /\ evals = 0 /\ alerts = 0 /\ sleeps = 0
    /\ gets = <<>> /\ jar = {} /\ issued = 0 /\ fetched = None
    /\ geo = NoGeo

Init ==
    /\ retries \in RetriesValues
    /\ \E stay \in Stays : arriving = stay[1] /\ leaving = stay[2]
    /\ pc = "start"
    /\ InitRun
    /\ fn = NoFn
    /\ cli = NoCli

Next ==
    \/ GetAllCall \/ GetAllReturn \/ ParkFilter \/ ParkFilterDone
    \/ CabinsCall \/ CabinsReturn \/ CabinFilter \/ CabinFilterDone \/ CabinsDone
    \/ LoopBreak \/ LoopIter \/ DatesCall \/ DatesReturn \/ Alert \/ PollDone \/ Sleep

Spec == Init /\ [][Next]_vars


(***************************************************************************)
(* The run of the command line: search() with the callbacks of cli().      *)
(***************************************************************************)
\* --notify, --min-capacity, --parks and --distance as given or left out
CliOptions ==
    {[on |-> TRUE, notify |-> n, min_capacity |-> m, parks |-> p, distance |-> d] :
        n \in BOOLEAN,
        m \in {None, Some(2)},
        p \in {None, Some("Oka"), Some("Jacques-Cartier,Oka")},
        d \in {None, Some(200)}}

\* the command line asks for a stay of two nights, polled once or twice
InitCli ==
    /\ retries \in {Some(1), Some(2)}
    /\ arriving = FirstDay /\ leaving = AddDays(FirstDay, 2)
    /\ pc = "start"
    /\ InitRun
    /\ fn = NoFn
    /\ cli \in CliOptions

SpecCli == InitCli /\ [][Next]_vars

(***************************************************************************)
(* The date functions applied alone, on every range of the window and      *)
(* every date list.                                                        *)
(***************************************************************************)
FnInput(start, stop, dates) ==
    [op |-> "input", start |-> start, stop |-> stop, dates |-> dates,
     range |-> <<>>, avail |-> [exc |-> "none", val |-> FALSE]]

InitDates ==
    /\ retries = None
    /\ arriving = FirstDay
    /\ leaving = FirstDay
    /\ pc = "idle"
    /\ InitRun
    /\ fn \in {FnInput(a, b, l) : a \in Days, b \in Days, l \in DateLists}
    /\ cli = NoCli

\* date_time_range(start, stop)
ApplyDateTimeRange ==
    /\ fn.op = "input"
    /\ fn' = [fn EXCEPT !.op = "range", !.range = date_time_range(fn.start, fn.stop)]
    /\ UNCHANGED <<inputs, pc, raisedAt, phase1, phase2, http, cli, geo>>

\* Cabin.is_available(start, stop), the cabin's dates() having returned fn.dates
ApplyIsAvailable ==
    /\ fn.op = "input"
    /\ fn' = [fn EXCEPT !.op = "avail", !.avail = is_available(fn.dates, fn.start, fn.stop)]
    /\ UNCHANGED <<inputs, pc, raisedAt, phase1, phase2, http, cli, geo>>

NextDates == ApplyDateTimeRange \/ ApplyIsAvailable

SpecDates == InitDates /\ [][NextDates]_vars

(***************************************************************************)
(* The location lookups called alone, in any order, each call returning:   *)
(* current_location() and the location property of the parks get_all can   *)
(* return.                                                                 *)
(***************************************************************************)
LocatedParks == {Park(r, 1) : r \in {q \in ParkRecords : StartsWith(q.url, "/")}}

RECURSIVE SumOver(_, _)
SumOver(f, S) ==
    IF S = {} THEN 0
    ELSE LET k == CHOOSE x \in S : TRUE IN f[k] + SumOver(f, S \ {k})

\* calls made so far
Lookups(g) == g.locCalls + SumOver(g.asked, ParkCoords)

InitGeo ==
    /\ retries = None
    /\ arriving = FirstDay
    /\ leaving = FirstDay
    /\ pc = "geo"
    /\ InitRun
    /\ fn = NoFn
    /\ cli = NoCli

\* a call of current_location()
CallCurrentLocation ==
    /\ pc = "geo"
    /\ Lookups(geo) < MaxLookups
    /\ geo' = current_location(geo)
    /\ UNCHANGED <<inputs, pc, raisedAt, phase1, phase2, http, fn, cli>>

\* an access of p.location, alone or within p.distance_km_from
CallParkLocation ==
    /\ pc = "geo"
    /\ Lookups(geo) < MaxLookups
    /\ \E p \in LocatedParks : geo' = Park_location(geo, p)
    /\ UNCHANGED <<inputs, pc, raisedAt, phase1, phase2, http, fn, cli>>

NextGeo == CallCurrentLocation \/ CallParkLocation

SpecGeo == InitGeo /\ [][NextGeo]_vars

(***************************************************************************)
(* The calendar, stated without ordinals: what the claims about dates are  *)
(* measured against.                                                       *)
(***************************************************************************)
Tomorrow(d) ==
    IF d.day < DaysInMonth(d.year, d.month) THEN Date(d.year, d.month, d.day + 1)
    ELSE IF d.month < 12 THEN Date(d.year, d.month + 1, 1)
    ELSE Date(d.year + 1, 1, 1)

DateBefore(a, b) ==
    \/ a.year < b.year
    \/ a.year = b.year /\ a.month < b.month
    \/ a.year = b.year /\ a.month = b.month /\ a.day < b.day

\* every calendar date of the window's year
Calendar ==
    {dt \in {Date(FirstDay.year, m, d) : m \in 1..12, d \in 1..31} :
        dt.day <= DaysInMonth(dt.year, dt.month)}

\* the calendar dates of [start, stop)
DatesOfStay(start, stop) ==
    {d \in Calendar : ~DateBefore(d, start) /\ DateBefore(d, stop)}

\* date d appears in the list, marked available
ListedFree(dates, d) ==
    \E k \in 1..Len(dates) :
        dates[k].availability /\ dates[k].dateAsStandardString = IsoFormat(d)

\* C6: is_available returns true iff every calendar date of [start, stop) is
\* in the fetched list marked available: true whenever stop <= start, false
\* (no error) when a needed date is missing from the list, the empty list
\* included. It raises only when an entry marked available carries a string
\* that is no date.
C6_IsAvailableIffAllDatesFree ==
    fn.op = "avail" =>
        /\ fn.avail.exc = "none" =>
              fn.avail.val = (\A d \in DatesOfStay(fn.start, fn.stop) : ListedFree(fn.dates, d))
        /\ (fn.avail.exc = "none" /\ ~DateBefore(fn.start, fn.stop)) => fn.avail.val
        /\ (\A k \in 1..Len(fn.dates) :
                fn.dates[k].availability =>
                    \E d \in Calendar : fn.dates[k].dateAsStandardString = IsoFormat(d))
              => fn.avail.exc = "none"
        /\ fn.dates = <<>> => (fn.avail.exc = "none" /\ fn.avail.val = ~DateBefore(fn.start, fn.stop))

\* a two-night stay across the end of February, both nights listed free
C6_Witness ==
    /\ fn.op = "avail"
    /\ fn.avail.exc = "none" /\ fn.avail.val
    /\ Cardinality(DatesOfStay(fn.start, fn.stop)) = 2
    /\ fn.start.month # fn.stop.month

\* C7: date_time_range(start, stop) is the (stop - start).days consecutive
\* calendar dates from start (included) to stop (excluded), increasing,
\* without gap or duplicate, and is empty when stop <= start.
C7_DateTimeRangeConsecutive ==
    fn.op = "range" =>
        LET r == fn.range
        IN  IF DateBefore(fn.start, fn.stop)
            THEN /\ Len(r) = DaysBetween(fn.start, fn.stop)
                 /\ Len(r) = Cardinality(DatesOfStay(fn.start, fn.stop))
                 /\ r[1] = fn.start
                 /\ Tomorrow(r[Len(r)]) = fn.stop
                 /\ \A k \in 1..(Len(r) - 1) : r[k + 1] = Tomorrow(r[k])
                 /\ \A a, b \in 1..Len(r) : a < b => DateBefore(r[a], r[b])
            ELSE r = <<>>

\* a range of two days or more that crosses the end of February
C7_Witness ==
    /\ fn.op = "range"
    /\ Len(fn.range) >= 2
    /\ fn.range[1].month # fn.range[Len(fn.range)].month


(***************************************************************************)
(* Properties of search().                                                 *)
(***************************************************************************)
Range(q) == {q[k] : k \in 1..Len(q)}

PollingPcs == {"poll", "dates_ret", "alert", "sleep"}

\* search() is past its enumeration, running or ended
InPhase2 == pc \in Phase2Pcs \cup {"done"} \/ (pc = "raised" /\ raisedAt \in Phase2Pcs)

\* C1: in every polling iteration, each kept cabin whose cabin_available
\* returned true is passed to alert exactly once, and each cabin whose
\* cabin_available returned false is not passed to alert; nothing is
\* remembered from earlier iterations.
C1_AlertOncePerAvailableCabin ==
    /\ Len(alertLog) <= Len(availLog) /\ Len(availLog) <= Len(cabins)
    /\ \A k \in 1..Len(alertLog) :
          alertLog[k] = IF availLog[k] THEN <<cabins[k]>> ELSE <<>>
    /\ pc = "alert" => Len(availLog) = ci /\ availLog[ci] /\ Len(alertLog) = ci - 1
    /\ pc = "poll" => Len(availLog) = ci - 1 /\ Len(alertLog) = ci - 1
    /\ pc = "sleep" => Len(availLog) = Len(cabins) /\ Len(alertLog) = Len(cabins)
    /\ alerts >= Cardinality({k \in 1..Len(alertLog) : alertLog[k] # <<>>})

\* the only kept cabin was alerted in iteration 0 and is alerted again in
\* iteration 1
C1_Witness ==
    /\ Len(cabins) = 1
    /\ i = 1
    /\ alerts = 2
    /\ alertLog = <<(<<cabins[1]>>)>>

\* C2: when search() ends with retries = N, it has run N polling iterations,
\* each evaluating cabin_available on every kept cabin, whatever was
\* alerted; with retries = 0 nothing is evaluated or alerted and phase 1 has
\* still run.
C2_RetriesIterations ==
    /\ pc \in {"loop", "done"} => evals = i * Len(cabins)
    /\ pc \in PollingPcs => evals = i * Len(cabins) + Len(availLog) + (IF pc = "dates_ret" THEN 1 ELSE 0)
    /\ pc = "done" =>
          /\ retries # None /\ retries = Some(i)
          /\ evals = retries[1] * Len(cabins)
          /\ getAllCalls = 1 /\ enumerated = parks
    /\ retries = Some(0) => evals = 0 /\ alerts = 0 /\ pc \notin PollingPcs

\* search(retries=2) ended after two iterations over two cabins or more, a
\* cabin having been alerted
C2_Witness ==
    /\ pc = "done"
    /\ retries = Some(2)
    /\ Len(cabins) >= 2
    /\ alerts >= 1
    /\ evals = 2 * Len(cabins)

\* C3 (as claimed): the polling loop exits iff retries is set: with retries
\* an integer no iteration of index >= retries is run, with retries None the
\* loop is never left.
C3_LoopExitsIffRetriesSet ==
    /\ (retries # None /\ pc \in PollingPcs) => i < retries[1]
    /\ retries = None => pc # "done"

\* once polling has begun: one get_all, one cabins() per kept park, in
\* order, and no GET to an enumeration URL
C4_Enumerated ==
    /\ getAllCalls <= 1
    /\ Len(enumerated) <= Len(parks)
    /\ InPhase2 =>
          /\ getAllCalls = 1
          /\ enumerated = parks
          /\ \A k \in 1..Len(gets) :
                gets[k].url \notin {ChaletPage, ResultsApi} \cup {Park_url(p) : p \in Range(parks)}

\* a step of phase 2 leaves the kept lists and the enumeration calls alone
C4_Fixed ==
    InPhase2 => /\ cabins' = cabins
                /\ parks' = parks
                /\ enumerated' = enumerated
                /\ getAllCalls' = getAllCalls

\* C4: Park.get_all is called once and cabins() once per kept park, in
\* order, before the first polling iteration; from then on the kept cabin
\* list does not change and no enumeration request is issued.
C4_EnumerationOnce == [](C4_Enumerated) /\ [][C4_Fixed]_vars

\* the second iteration starts over the cabins of two kept parks
C4_Witness ==
    /\ pc = "poll"
    /\ i = 1
    /\ Len(parks) = 2
    /\ Len(cabins) >= 2
    /\ cabins[1].park # cabins[Len(cabins)].park

\* C5: cabins() is called for the parks park_filter accepted, once each, and
\* for no park it rejected; every kept cabin is a cabin of an accepted park
\* for which cabin_filter returned true.
C5_CabinsOfAcceptedParks ==
    LET accepted == {allParks[k] : k \in {j \in 1..Len(parkLog) : parkLog[j]}}
        rejected == {allParks[k] : k \in {j \in 1..Len(parkLog) : ~parkLog[j]}}
    IN  /\ Range(parks) = accepted
        /\ Range(enumerated) \subseteq accepted
        /\ Range(enumerated) \cap rejected = {}
        /\ \A a, b \in 1..Len(enumerated) : enumerated[a] = enumerated[b] => a = b
        /\ InPhase2 => Range(enumerated) = accepted /\ Len(parkLog) = Len(allParks)
        /\ Len(cabinOk) = Len(cabins)
        /\ \A k \in 1..Len(cabins) :
              /\ cabinOk[k]
              /\ cabins[k].park \in accepted
              /\ cabins[k].park \in Range(enumerated)

\* of two parks only Jacques-Cartier was accepted; one of its two cabins
\* was kept
C5_Witness ==
    /\ pc = "loop"
    /\ Len(allParks) = 2
    /\ Len(parks) = 1
    /\ Park_name(parks[1]) = "Jacques-Cartier"
    /\ enumerated = parks
    /\ Len(cabins) = 1

\* C8: time.sleep is called once per polling iteration, after all kept
\* cabins of the iteration and before the next iteration, the final one
\* included: the number of sleeps is the number of completed iterations.
C8_OneSleepPerIteration ==
    /\ pc # "raised" => sleeps = i
    /\ pc = "raised" => sleeps = i + (IF raisedAt = "sleep" THEN 1 ELSE 0)
    /\ pc = "sleep" => ci > Len(cabins) /\ Len(availLog) = Len(cabins)
                       /\ Len(alertLog) = Len(cabins)
    /\ pc = "done" => sleeps = retries[1]
    /\ retries = Some(0) => sleeps = 0

\* search(retries=2) ended: two iterations over a kept cabin, two sleeps
C8_Witness ==
    /\ pc = "done"
    /\ retries = Some(2)
    /\ Len(cabins) >= 1
    /\ sleeps = 2

\* C9: once a fetch or a filter of phase 1 has raised, search() is over:
\* cabin_available, alert and time.sleep are never called.
C9_Phase1FailureAborts ==
    raisedAt \in Phase1Pcs =>
        /\ pc = "raised"
        /\ evals = 0 /\ alerts = 0 /\ sleeps = 0
        /\ i = 0 /\ availLog = <<>> /\ alertLog = <<>>

\* cabin_filter raised after a cabin had been kept
C9_Witness ==
    /\ pc = "raised"
    /\ raisedAt = "cabin_filter"
    /\ Len(cabins) >= 1

PageUrls ==
    {ChaletPage} \cup {Park_url(p) : p \in Range(allParks)}
                 \cup {Cabin_url(c) : c \in Range(cabins)}

\* C10: a stateful_json_request issues its GETs in order: the page, without
\* cookies, then the data URL with exactly the cookies the page response of
\* that same request set, which are none of an earlier request; a request
\* that returns has issued exactly these two; a failed GET is the last one
\* of its request, and each request issues one page GET.
C10_TwoGetsOwnCookies ==
    /\ Len(gets) <= 2
    /\ Len(gets) >= 1 => gets[1].url \in PageUrls /\ gets[1].cookies = {}
    /\ Len(gets) = 2 =>
          /\ gets[2].url \in {ResultsApi, AvailApi}
          /\ gets[2].cookies = jar
          /\ gets[2].cookies \subseteq {issued}
    /\ pc \in {"get_all", "cabins_ret", "dates_ret"} => Len(gets) = 1
    /\ (pc \in {"park_filter", "cabin_filter", "alert", "poll"} /\ gets # <<>>) => Len(gets) = 2
    /\ (pc = "raised" /\ raisedAt \in {"start", "cabins", "poll"}) => Len(gets) = 1
    /\ (pc = "raised" /\ raisedAt \in {"get_all", "cabins_ret", "dates_ret"}) => Len(gets) = 2
    /\ issued = getAllCalls + Len(enumerated) + evals

\* the second GET of a later request carries the cookie its own page set
C10_Witness ==
    /\ pc = "cabin_filter"
    /\ Len(gets) = 2
    /\ issued >= 2
    /\ gets[2].cookies = {issued}

\* C11: with the date matcher, every polling iteration fetches the date list
\* of each kept cabin exactly once, one cabin after the other in the order of
\* the cabin list, and the decision on a cabin in an iteration is the one the
\* list fetched for it in that iteration gives (every date of the stay listed
\* free), whatever earlier iterations fetched: a cabin that became available
\* since the last iteration is alerted in this one.
C11_FreshDatesPerIteration ==
    /\ pc = "dates_ret" =>
          /\ gets[1].url = Cabin_url(cabins[ci])
          /\ Len(availLog) = ci - 1
          /\ evals = i * Len(cabins) + ci
    /\ (pc = "poll" /\ raisedAt = "") => evals = i * Len(cabins) + (ci - 1)
    /\ pc = "sleep" => evals = (i + 1) * Len(cabins)
    /\ (fetched # None /\ raisedAt = "") =>
          LET free == \A d \in DatesOfStay(arriving, leaving) : ListedFree(fetched[1], d)
          IN  /\ pc \in {"alert", "poll"}
              /\ availLog[Len(availLog)] = free
              /\ (pc = "alert") = free

\* the only kept cabin was not available in iteration 0 and not alerted; the
\* list fetched in iteration 1 has every day of the stay free, and the cabin
\* is about to be alerted
C11_Witness ==
    /\ Len(cabins) = 1 /\ i = 1 /\ alerts = 0
    /\ pc = "alert"
    /\ fetched = Some(WindowList(TRUE))
    /\ DatesOfStay(arriving, leaving) # {}

\* C12: the alert of the command line returns normally whether or not
\* notifications are enabled: with --notify no call of alert raises, so the
\* polling goes on after a cabin was found.
C12_NotifyAlertReturns ==
    (cli.on /\ cli.notify) => raisedAt # "alert"

\* C14: with --min-capacity the enumeration of the cabins completes without
\* error: no call of cabin_filter raises, and the polling starts.
C14_MinCapacityFilterReturns ==
    (cli.on /\ cli.min_capacity # None) => raisedAt # "cabin_filter"

\* name is one of the comma-separated pieces of s
Listed(name, s) ==
    \E a \in 0..Len(s), b \in 0..Len(s) :
        /\ a <= b
        /\ SubSeq(s, a + 1, b) = name
        /\ (a = 0 \/ SubSeq(s, a, a) = ",")
        /\ (b = Len(s) \/ SubSeq(s, b + 1, b + 1) = ",")

\* C17: in the park filter of the command line the allowlist of names goes
\* before the distance: with --parks a park is kept iff its name is in the
\* list, whatever --distance says, the filter never fails, and neither the
\* current location nor the location of any park is looked up; the distance
\* decides only when no allowlist is given, and then every park evaluated
\* has had its location looked up.
C17_AllowlistBeforeDistance ==
    cli.on =>
        /\ \A k \in 1..Len(parkLog) :
              parkLog[k] =
                 IF cli.parks # None
                 THEN Listed(Park_name(allParks[k]), cli.parks[1])
                 ELSE IF cli.distance # None
                 THEN Park_distance_km_from(allParks[k], IpLoc) < cli.distance[1]
                 ELSE TRUE
        /\ Range(parks) = {allParks[k] : k \in {j \in 1..Len(parkLog) : parkLog[j]}}
        /\ (cli.parks # None \/ cli.distance = None) =>
              geo = NoGeo /\ raisedAt # "park_filter"
        /\ (cli.parks = None /\ cli.distance # None) =>
              /\ \A k \in 1..Len(parkLog) : geo.asked[allParks[k].data.coordonnees] = 1
              /\ Len(parkLog) > 0 => geo.ip = 1

\* both options are given; Jacques-Cartier, 400 km away with a limit of 200,
\* is kept for its name and the cabin enumeration has begun
C17_Witness ==
    /\ cli.on
    /\ cli.parks = Some("Jacques-Cartier,Oka") /\ cli.distance = Some(200)
    /\ pc = "cabins"
    /\ \E k \in 1..Len(parks) :
          /\ Park_name(parks[k]) = "Jacques-Cartier"
          /\ Park_distance_km_from(parks[k], IpLoc) > 200

\* C13: both location lookups are memoized: over any sequence of calls the
\* request to ipinfo.io is made at most once, and the reverse-geocoding
\* request for given coordinates (those of a park, asked again through
\* Park.location or distance_km_from) is made at most once.
C13_LookupsAtMostOnce ==
    /\ geo.ip <= 1
    /\ \A k \in GeoKeys : geo.reverse[k] <= 1

\* C13, as the code has it: the result of current_location() and the geocoder
\* object are memoized (one request to ipinfo.io and one reverse-geocoding of
\* its answer, made by the first call; one geocoder constructed, by the first
\* lookup of either kind), and the location of a park is not: every access of
\* Park.location makes one reverse-geocoding request, the same coordinates
\* included.
C13_OnlyCurrentLocationMemoized ==
    /\ geo.ip = (IF geo.locCalls > 0 THEN 1 ELSE 0)
    /\ geo.reverse[IpLoc] = geo.ip
    /\ geo.here = (geo.locCalls > 0)
    /\ geo.built = (IF Lookups(geo) > 0 THEN 1 ELSE 0)
    /\ \A k \in ParkCoords : geo.reverse[k] = geo.asked[k]

\* current_location() was called three times and the location of one park
\* was asked twice
C13_Witness ==
    /\ geo.locCalls = 3
    /\ \E k \in ParkCoords : geo.asked[k] = 2 /\ geo.reverse[k] = 2

\* C15: a failure while polling is not isolated. When cabin_available(c) or
\* alert(c) raises in iteration k, search() is over: the failing cabin is the
\* last one evaluated, no sleep of iteration k is made and no iteration
\* follows; what was alerted before the failure stays alerted.
C15_Phase2FailureAborts ==
    raisedAt \in {"poll", "dates_ret", "alert"} =>
        /\ pc = "raised"
        /\ evals = i * Len(cabins) + ci
        /\ Len(availLog) <= ci /\ Len(alertLog) <= ci
        /\ sleeps = i
        /\ ~foundNothing
        /\ \A k \in 1..Len(alertLog) :
              alertLog[k] = IF availLog[k] THEN <<cabins[k]>> ELSE <<>>
        /\ alerts >= Cardinality({k \in 1..Len(alertLog) : alertLog[k] # <<>>})

\* in iteration 1 the alert of the first of two kept cabins raised, after an
\* alert in iteration 0: the second cabin is not evaluated in iteration 1
C15_Witness ==
    /\ raisedAt = "alert" /\ pc = "raised"
    /\ i = 1 /\ ci = 1 /\ Len(cabins) = 2
    /\ alerts >= 2
    /\ evals = 3

IsPath(r) == SubSeq(r.url, 1, 1) = "/"

\* C16: get_all drops the records whose url is no path before any filtering.
\* The parks it returns are the records of the response whose url begins with
\* "/", in the order of the response; park_filter is evaluated on these
\* only, once each, whatever it would answer on a dropped record, and no
\* dropped record is kept, enumerated for cabins, or the park of a kept or
\* alerted cabin.
C16_ExternalParksDropped ==
    /\ \A k \in 1..Len(allParks) :
          /\ allParks[k].id \in 1..Len(rawParks)
          /\ allParks[k].data = rawParks[allParks[k].id]
          /\ \A j \in 1..(k - 1) : allParks[j].id < allParks[k].id
    /\ {allParks[k].id : k \in 1..Len(allParks)}
          = {j \in 1..Len(rawParks) : IsPath(rawParks[j])}
    /\ Len(parkLog) <= Len(allParks)
    /\ pc = "park_filter" => Len(parkLog) = pidx - 1
    /\ (pc \in {"cabins", "cabins_ret", "cabin_filter"} \/ InPhase2) =>
          Len(parkLog) = Len(allParks)
    /\ \A p \in Range(parks) \cup Range(enumerated) : IsPath(p.data)
    /\ \A c \in Range(cabins) \cup Range(curCabins) : IsPath(c.park.data)
    /\ \A k \in 1..Len(alertLog) :
          alertLog[k] # <<>> => IsPath(alertLog[k][1].park.data)

\* the response listed an external park before a park of the site: only the
\* second went through park_filter, and a cabin of it is being alerted
C16_Witness ==
    /\ Len(rawParks) = 2 /\ ~IsPath(rawParks[1])
    /\ Len(allParks) = 1 /\ Len(parkLog) = 1
    /\ pc = "alert"
    /\ cabins[ci].park.data = rawParks[2]

\* C18: in every polling iteration "Found nothing" is printed iff no cabin
\* was alerted in that iteration.
C18_FoundNothingIffNoAlert ==
    pc = "sleep" =>
        (foundNothing <=> \A k \in 1..Len(alertLog) : alertLog[k] = <<>>)

====
